---------------------------- MODULE Spec2Model ----------------------------
(***************************************************************************)
(* Model of the echoing API (src/main.py): one route whose handler `echo`  *)
(* returns a description of the request it received, with the helpers      *)
(* `_normalize_scope` and `_headers_to_list`.                              *)
(*                                                                         *)
(* Representation of Python values:                                        *)
(*   bytes            a sequence of integers 0..255                        *)
(*   str              a sequence of code points                            *)
(*   a tagged value   a record whose field t names the Python type and     *)
(*                    whose field v (when present) holds the payload       *)
(*   None             the record [t |-> "None"]                            *)
(***************************************************************************)
EXTENDS Integers, Sequences, FiniteSets, TLC

(***************************************************************************)
(* Bounds of the model.                                                    *)
(***************************************************************************)
\* Longest request body, in bytes.
MaxBody == 4
\* Longest header list handed to _headers_to_list.
MaxHeaders == 3
\* Most entries of a scope dictionary handed to _normalize_scope.
MaxScope == 2

None == [t |-> "None"]
PyStr(cps) == [t |-> "str", v |-> cps]
PyBytes(bs) == [t |-> "bytes", v |-> bs]
PyInt(n) == [t |-> "int", v |-> n]
PyList(items) == [t |-> "list", v |-> items]
PyTuple(items) == [t |-> "tuple", v |-> items]

\* Truthy as `raw_body is not None`: true of the empty body too.
IsNotNone(bs) == TRUE

\* Python truthiness of a bytes object: `if raw_body`.
Truthy(bs) == Len(bs) > 0

\* All sequences over S of length 0..n.
SeqsUpTo(S, n) == UNION {[1..k -> S] : k \in 0..n}

(***************************************************************************)
(* Text constants, spelled as their ASCII bytes / code points.             *)
(***************************************************************************)
\* "content-type"
S_content_type == <<99, 111, 110, 116, 101, 110, 116, 45, 116, 121, 112, 101>>
\* "utf-8"
S_utf_8 == <<117, 116, 102, 45, 56>>
\* "latin-1"
S_latin_1 == <<108, 97, 116, 105, 110, 45, 49>>
\* "ascii"
S_ascii == <<97, 115, 99, 105, 105>>
\* "undefined"
S_undefined == <<117, 110, 100, 101, 102, 105, 110, 101, 100>>
\* "application/json"
S_application_json == <<97, 112, 112, 108, 105, 99, 97, 116, 105, 111, 110, 47, 106, 115, 111, 110>>
\* "text/plain"
S_text_plain == <<116, 101, 120, 116, 47, 112, 108, 97, 105, 110>>
\* "text/plain; charset=latin-1"
S_text_plain_charset_latin_1 == <<116, 101, 120, 116, 47, 112, 108, 97, 105, 110, 59, 32, 99, 104, 97, 114, 115, 101, 116, 61, 108, 97, 116, 105, 110, 45, 49>>
\* "x-tag"
S_x_tag == <<120, 45, 116, 97, 103>>
\* "accept"
S_accept == <<97, 99, 99, 101, 112, 116>>

\* U+FFFD REPLACEMENT CHARACTER, what errors="replace" substitutes.
ReplacementChar == 65533

(***************************************************************************)
(* bytes.decode(encoding, errors="replace"), main.py lines 56 and 58.      *)
(* The result is a str, or the exception the call raises.                  *)
(***************************************************************************)

\* One step of the UTF-8 decoder at position i of bs: the code point (or
\* "invalid") and the number of bytes consumed.  Covers the one- and two-byte
\* forms; every byte of BodyAlphabet is below 0xE0, so three- and four-byte
\* lead bytes do not occur.
Utf8Step(bs, i) ==
    LET b == bs[i] IN
    IF b < 128 THEN [ok |-> TRUE, cp |-> b, n |-> 1]
    ELSE IF b >= 194 /\ b <= 223 /\ i < Len(bs) /\ bs[i + 1] >= 128 /\ bs[i + 1] <= 191
         THEN [ok |-> TRUE, cp |-> (b - 192) * 64 + (bs[i + 1] - 128), n |-> 2]
         ELSE [ok |-> FALSE, cp |-> ReplacementChar, n |-> 1]

RECURSIVE Utf8From(_, _)
\* The decoding steps of bs from position i on.
Utf8From(bs, i) ==
    IF i > Len(bs) THEN <<>>
    ELSE LET s == Utf8Step(bs, i) IN <<s>> \o Utf8From(bs, i + s.n)

\* bs.decode("utf-8", errors="replace"): never raises.
Utf8Replace(bs) ==
    LET steps == Utf8From(bs, 1) IN [k \in DOMAIN steps |-> steps[k].cp]

\* bs.decode("utf-8") with strict errors (used by json.loads on bytes).
Utf8Strict(bs) ==
    LET steps == Utf8From(bs, 1) IN
    IF \A k \in DOMAIN steps : steps[k].ok
    THEN [ok |-> TRUE, v |-> [k \in DOMAIN steps |-> steps[k].cp]]
    ELSE [ok |-> FALSE]

\* bs.decode("latin-1"): byte b is code point b.
Latin1Decode(bs) == [k \in DOMAIN bs |-> bs[k]]

\* bs.decode("ascii", errors="replace").
AsciiReplace(bs) == [k \in DOMAIN bs |-> IF bs[k] < 128 THEN bs[k] ELSE ReplacementChar]

\* The codec registry's answer for an encoding name: the codec, or "unknown"
\* (codecs.lookup raises LookupError).  A whole Content-Type value such as
\* "application/json" or "text/plain; charset=latin-1" names no codec.
CodecLookup(name) ==
    CASE name = S_utf_8 -> "utf-8"
      [] name = S_latin_1 -> "latin-1"
      [] name = S_ascii -> "ascii"
      [] name = S_undefined -> "undefined"
      [] OTHER -> "unknown"

\* raw_body.decode(encoding, errors="replace"): the text, or the exception.
\* The "undefined" codec raises UnicodeError on every call, whatever errors is.
Decode(bs, encoding) ==
    LET codec == CodecLookup(encoding) IN
    CASE codec = "utf-8" -> [exc |-> "none", text |-> Utf8Replace(bs)]
      [] codec = "latin-1" -> [exc |-> "none", text |-> Latin1Decode(bs)]
      [] codec = "ascii" -> [exc |-> "none", text |-> AsciiReplace(bs)]
      [] codec = "undefined" -> [exc |-> "UnicodeError"]
      [] OTHER -> [exc |-> "LookupError"]

(***************************************************************************)
(* base64.b64encode(raw_body).decode("ascii"), main.py line 67.            *)
(***************************************************************************)
\* The base64 alphabet: A-Z a-z 0-9 + /
B64Char(n) ==
    IF n < 26 THEN 65 + n
    ELSE IF n < 52 THEN 97 + (n - 26)
    ELSE IF n < 62 THEN 48 + (n - 52)
    ELSE IF n = 62 THEN 43 ELSE 47

B64Pad == <<61>>

RECURSIVE b64encode(_)
b64encode(bs) ==
    IF Len(bs) = 0 THEN <<>>
    ELSE IF Len(bs) = 1 THEN
        <<B64Char(bs[1] \div 4), B64Char((bs[1] % 4) * 16)>> \o B64Pad \o B64Pad
    ELSE IF Len(bs) = 2 THEN
        <<B64Char(bs[1] \div 4),
          B64Char((bs[1] % 4) * 16 + bs[2] \div 16),
          B64Char((bs[2] % 16) * 4)>> \o B64Pad
    ELSE
        <<B64Char(bs[1] \div 4),
          B64Char((bs[1] % 4) * 16 + bs[2] \div 16),
          B64Char((bs[2] % 16) * 4 + bs[3] \div 64),
          B64Char(bs[3] % 64)>> \o b64encode(SubSeq(bs, 4, Len(bs)))

\* base64.b64decode, the inverse the round-trip property is stated with.
B64Value(c) ==
    IF c >= 65 /\ c <= 90 THEN c - 65
    ELSE IF c >= 97 /\ c <= 122 THEN c - 97 + 26
    ELSE IF c >= 48 /\ c <= 57 THEN c - 48 + 52
    ELSE IF c = 43 THEN 62 ELSE 63

RECURSIVE b64decode(_)
b64decode(cs) ==
    IF Len(cs) < 4 THEN <<>>
    ELSE LET a == B64Value(cs[1])
             b == B64Value(cs[2])
             c == B64Value(cs[3])
             d == B64Value(cs[4])
         IN IF cs[3] = B64Pad[1] THEN <<a * 4 + b \div 16>>
            ELSE IF cs[4] = B64Pad[1] THEN <<a * 4 + b \div 16, (b % 16) * 16 + c \div 4>>
            ELSE <<a * 4 + b \div 16, (b % 16) * 16 + c \div 4, (c % 4) * 64 + d>>
                 \o b64decode(SubSeq(cs, 5, Len(cs)))

(***************************************************************************)
(* request.json(): json.loads(body), main.py line 63.  json.loads decodes  *)
(* the bytes as strict UTF-8 (no body of the model starts with a BOM or    *)
(* holds a NUL byte, so no other encoding is detected) and parses the      *)
(* text.  The grammar below is the part of JSON that texts over            *)
(* BodyAlphabet can use: whitespace, arrays, strings without escapes and   *)
(* non-negative integers.                                                  *)
(***************************************************************************)
IsWs(c) == c \in {32, 9, 10, 13}
IsDigit(c) == c >= 48 /\ c <= 57

RECURSIVE SkipWs(_, _)
SkipWs(s, i) == IF i <= Len(s) /\ IsWs(s[i]) THEN SkipWs(s, i + 1) ELSE i

RECURSIVE DigitsEnd(_, _)
\* The index after the run of digits that starts at i.
DigitsEnd(s, i) == IF i <= Len(s) /\ IsDigit(s[i]) THEN DigitsEnd(s, i + 1) ELSE i

RECURSIVE DigitsValue(_)
DigitsValue(ds) ==
    IF Len(ds) = 0 THEN 0
    ELSE DigitsValue(SubSeq(ds, 1, Len(ds) - 1)) * 10 + (ds[Len(ds)] - 48)

ParseFail == [ok |-> FALSE]

RECURSIVE ParseValue(_, _)
RECURSIVE ParseItems(_, _, _)
\* scan_once: the value that starts at index i of s, and the index after it.
ParseValue(s, i) ==
    IF i > Len(s) THEN ParseFail
    ELSE IF s[i] = 34 THEN
        \* a string: up to the next quotation mark
        LET closing == {j \in (i + 1)..Len(s) : s[j] = 34} IN
        IF closing = {} THEN ParseFail
        ELSE LET j == CHOOSE j \in closing : \A k \in closing : j <= k IN
             [ok |-> TRUE, val |-> PyStr(SubSeq(s, i + 1, j - 1)), end |-> j + 1]
    ELSE IF s[i] = 91 THEN
        \* an array
        LET k == SkipWs(s, i + 1) IN
        IF k <= Len(s) /\ s[k] = 93
        THEN [ok |-> TRUE, val |-> PyList(<<>>), end |-> k + 1]
        ELSE ParseItems(s, k, <<>>)
    ELSE IF IsDigit(s[i]) THEN
        \* an integer: 0, or a run of digits that does not start with 0
        LET e == IF s[i] = 48 THEN i + 1 ELSE DigitsEnd(s, i) IN
        [ok |-> TRUE, val |-> PyInt(DigitsValue(SubSeq(s, i, e - 1))), end |-> e]
    ELSE ParseFail

\* The items of an array from index i on, acc being the items parsed so far.
ParseItems(s, i, acc) ==
    LET r == ParseValue(s, i) IN
    IF ~r.ok THEN ParseFail
    ELSE LET k == SkipWs(s, r.end) IN
         IF k <= Len(s) /\ s[k] = 93
         THEN [ok |-> TRUE, val |-> PyList(Append(acc, r.val)), end |-> k + 1]
         ELSE IF k <= Len(s) /\ s[k] = 44
         THEN ParseItems(s, SkipWs(s, k + 1), Append(acc, r.val))
         ELSE ParseFail

\* json.loads(bs): the parsed value, or an exception (UnicodeDecodeError and
\* JSONDecodeError are both ValueError).
json_loads(bs) ==
    LET d == Utf8Strict(bs) IN
    IF ~d.ok THEN [exc |-> TRUE]
    ELSE LET r == ParseValue(d.v, SkipWs(d.v, 1)) IN
         IF r.ok /\ SkipWs(d.v, r.end) = Len(d.v) + 1
         THEN [exc |-> FALSE, val |-> r.val]
         ELSE [exc |-> TRUE]

(***************************************************************************)
(* _headers_to_list, main.py lines 26-44.                                  *)
(***************************************************************************)
RECURSIVE IntToStr(_)
\* str(n) of a non-negative int.
IntToStr(n) == IF n < 10 THEN <<48 + n>> ELSE IntToStr(n \div 10) \o <<48 + (n % 10)>>

\* _to_str: bytes are decoded as Latin-1 (which maps every byte, so
\* errors="replace" never applies); anything else goes through str().
_to_str(value) ==
    IF value.t = "bytes" THEN Latin1Decode(value.v)
    ELSE IF value.t = "int" THEN IntToStr(value.v)
    ELSE value.v

\* HeaderItems probing .items() first.
HeaderItemsItemsFirst(headers) ==
    IF "items" \in headers.attrs THEN headers.items
    ELSE IF "multi_items" \in headers.attrs THEN headers.multi_items
    ELSE IF "raw" \in headers.attrs THEN headers.raw
    ELSE <<>>

\* The items the headers object is read through: the first of .raw,
\* .multi_items() and .items() that the object has, else nothing.
HeaderItems(headers) ==
    IF "raw" \in headers.attrs THEN headers.raw
    ELSE IF "multi_items" \in headers.attrs THEN headers.multi_items
    ELSE IF "items" \in headers.attrs THEN headers.items
    ELSE <<>>

_headers_to_list(headers) ==
    LET items == HeaderItems(headers) IN
    [k \in DOMAIN items |-> [name |-> _to_str(items[k][1]), value |-> _to_str(items[k][2])]]

(***************************************************************************)
(* _normalize_scope, main.py lines 10-23.  A dict is a sequence of         *)
(* <<key, value>> entries with distinct keys, in insertion order.          *)
(***************************************************************************)
RedundantKeys == {"headers", "raw_headers", "app", "router", "endpoint", "state"}

\* isinstance(value, (str, int, float, bool)) or value is None
IsScalar(value) == value.t \in {"str", "int", "float", "bool", "None"}

\* isinstance(value, (list, tuple))
IsSequence(value) == value.t \in {"list", "tuple"}

\* AllItemsScalar with any() in place of all().
AnyItemScalar(value) == \E k \in DOMAIN value.v : value.v[k].t \in {"str", "int", "float", "bool", "None"}

\* all(isinstance(item, (str, int, float, bool, type(None))) for item in value)
AllItemsScalar(value) == \A k \in DOMAIN value.v : IsScalar(value.v[k])

\* Whether the loop body stores an entry for (key, value).
Retained(key, value) ==
    /\ key \notin RedundantKeys
    /\ \/ IsScalar(value)
       \/ IsSequence(value) /\ AllItemsScalar(value)

\* What is stored: the value itself, or list(value) for a sequence.
Stored(value) == IF IsSequence(value) THEN PyList(value.v) ELSE value

RECURSIVE _normalize_scope(_)
_normalize_scope(scope) ==
    IF Len(scope) = 0 THEN <<>>
    ELSE LET key == scope[1][1]
             value == scope[1][2]
             rest == _normalize_scope(Tail(scope))
         IN IF Retained(key, value) THEN <<<<key, Stored(value)>>>> \o rest ELSE rest

(***************************************************************************)
(* The request as the transport hands it over, and what the handler reads  *)
(* from it.                                                                *)
(***************************************************************************)
\* @app.api_route("/", methods=[...]), main.py lines 47-50.
RoutePath == "/"
RouteMethods == {"GET", "POST", "PUT", "PATCH", "DELETE", "OPTIONS", "HEAD"}

\* How the router answers a request: the handler runs only when the path is
\* the route's path and the method one of its methods; a matching path with
\* another method is 405, any other path is 404.
Route(method, path) ==
    IF path = RoutePath
    THEN IF method \in RouteMethods THEN "echo" ELSE "405"
    ELSE "404"

\* request.headers.get(name, default): the Latin-1 text of the first header
\* of that name, or the default.
HeadersGet(wire, name, default) ==
    LET hits == {k \in DOMAIN wire : wire[k][1] = PyBytes(name)} IN
    IF hits = {} THEN default
    ELSE Latin1Decode(wire[CHOOSE k \in hits : \A j \in hits : k <= j][2].v)

\* request.headers (a starlette Headers over scope["headers"]): .raw is the
\* list as received; .items() is the Mapping view, which gives every name its
\* first value.
StarletteHeaders(wire) ==
    [attrs |-> {"raw", "items"},
     raw |-> wire,
     items |-> [k \in DOMAIN wire |->
                  <<PyStr(Latin1Decode(wire[k][1].v)),
                    PyStr(HeadersGet(wire, wire[k][1].v, <<>>))>>]]

\* The ASGI scope of a request at the time the handler runs.
ScopeOf(r) ==
    << <<"type", PyStr("http")>>,
       <<"asgi", [t |-> "dict"]>>,
       <<"http_version", PyStr("1.1")>>,
       <<"server", r.server>>,
       <<"client", r.client>>,
       <<"scheme", PyStr("http")>>,
       <<"method", PyStr(r.method)>>,
       <<"root_path", PyStr("")>>,
       <<"path", PyStr(r.path)>>,
       <<"raw_path", PyBytes(r.path)>>,
       <<"query_string", PyBytes(r.query_string)>>,
       <<"headers", PyList(r.headers)>>,
       <<"state", [t |-> "dict"]>>,
       <<"app", [t |-> "object"]>>,
       <<"router", [t |-> "object"]>>,
       <<"endpoint", [t |-> "function"]>>,
       <<"path_params", [t |-> "dict"]>> >>

\* scope.get(key): the value, or None.
ScopeGet(scope, key) ==
    LET hits == {k \in DOMAIN scope : scope[k][1] = key} IN
    IF hits = {} THEN None ELSE scope[CHOOSE k \in hits : TRUE][2]

(***************************************************************************)
(* The pieces of echo, main.py lines 51-95.                                *)
(***************************************************************************)
\* Lines 53-58: body_text, or the exception that leaves the handler.  Only
\* LookupError is caught.
BodyText(raw_body, headers) ==
    IF ~Truthy(raw_body) THEN [exc |-> "none", value |-> None]
    ELSE LET d == Decode(raw_body, HeadersGet(headers, S_content_type, S_utf_8)) IN
         IF d.exc = "none" THEN [exc |-> "none", value |-> PyStr(d.text)]
         ELSE IF d.exc = "LookupError"
         THEN [exc |-> "none", value |-> PyStr(Utf8Replace(raw_body))]
         ELSE [exc |-> d.exc]

\* JsonPayload without its try/except: a parse failure leaves the handler.
JsonPayloadUncaught(raw_body) ==
    IF ~Truthy(raw_body) THEN [exc |-> "none", value |-> None]
    ELSE LET j == json_loads(raw_body) IN
         IF j.exc THEN [exc |-> "ValueError"]
         ELSE [exc |-> "none", value |-> j.val]

\* Lines 60-65: json_payload.  Every Exception is caught.
JsonPayload(raw_body) ==
    IF ~Truthy(raw_body) THEN [exc |-> "none", value |-> None]
    ELSE LET j == json_loads(raw_body) IN
         IF j.exc THEN [exc |-> "none", value |-> None]
         ELSE [exc |-> "none", value |-> j.val]

\* str.encode("utf-8") of one code point (up to U+FFFF).
Utf8EncodeChar(cp) ==
    IF cp < 128 THEN <<cp>>
    ELSE IF cp < 2048 THEN <<192 + (cp \div 64), 128 + (cp % 64)>>
    ELSE <<224 + (cp \div 4096), 128 + ((cp \div 64) % 64), 128 + (cp % 64)>>

RECURSIVE Utf8Encode(_)
Utf8Encode(cps) ==
    IF Len(cps) = 0 THEN <<>> ELSE Utf8EncodeChar(cps[1]) \o Utf8Encode(Tail(cps))

\* BodyBase64 computed from the decoded text instead of the raw bytes.
BodyBase64OfText(raw_body) ==
    IF Truthy(raw_body) THEN PyStr(b64encode(Utf8Encode(Utf8Replace(raw_body)))) ELSE None

\* Line 67: body_base64.
BodyBase64(raw_body) ==
    IF Truthy(raw_body) THEN PyStr(b64encode(raw_body)) ELSE None

\* Line 71: client_host, client_port.
ClientInfo(r) ==
    IF r.client # None
    THEN [host |-> r.client.v[1], port |-> r.client.v[2]]
    ELSE [host |-> None, port |-> None]

\* Line 72: server_host, server_port (`scope.get("server") or (None, None)`).
ServerInfo(r) ==
    LET server == ScopeGet(ScopeOf(r), "server") IN
    IF server # None
    THEN [host |-> server.v[1], port |-> server.v[2]]
    ELSE [host |-> None, port |-> None]

\* Lines 74-95: the returned dictionary.  url, base_url, path_params,
\* query_params and cookies are views the framework derives from the same
\* scope and are left out.
Assemble(r, raw_body, body_text, json_payload) ==
    [method |-> r.method,
     http_version |-> ScopeGet(ScopeOf(r), "http_version"),
     scheme |-> ScopeGet(ScopeOf(r), "scheme"),
     path |-> r.path,
     query_string |-> PyStr(Latin1Decode(r.query_string)),
     headers |-> _headers_to_list(StarletteHeaders(r.headers)),
     client |-> ClientInfo(r),
     server |-> ServerInfo(r),
     body |-> [text |-> body_text,
               base64 |-> BodyBase64(raw_body),
               length |-> Len(raw_body)],
     json |-> json_payload,
     scope |-> _normalize_scope(ScopeOf(r))]

(***************************************************************************)
(* Inputs.                                                                 *)
(***************************************************************************)
\* Body bytes: '1' '[' ']' '"', and 0xC3 0xA9 (together the UTF-8 form of
\* U+00E9, alone invalid UTF-8).
BodyAlphabet == {49, 91, 93, 34, 195, 169}
Bodies == SeqsUpTo(BodyAlphabet, MaxBody)

\* Content-Type header values; <<>> stands for "no such header".
ContentTypes ==
    {S_application_json, S_text_plain, S_text_plain_charset_latin_1,
     S_utf_8, S_latin_1, S_ascii, S_undefined}

Header(name, value) == <<PyBytes(name), PyBytes(value)>>

Address(host, port) == PyTuple(<<PyStr(host), PyInt(port)>>)
Client1 == Address("127.0.0.1", 50001)
Client2 == Address("127.0.0.1", 50002)
Server1 == Address("127.0.0.1", 8000)

Request(method, path, query, headers, body, client, server) ==
    [method |-> method, path |-> path, query_string |-> query,
     headers |-> headers, body |-> body, client |-> client, server |-> server]

\* Requests that vary what the router and the connection see.
RoutingRequests ==
    {Request(m, p, q, h, b, c, sv) :
        m \in RouteMethods \cup {"TRACE"},
        p \in {"/", "/foo", "/a/b"},
        q \in {<<>>, <<120, 61, 49>>},
        h \in {<<>>, <<Header(S_x_tag, <<97>>), Header(S_x_tag, <<98>>)>>},
        b \in {<<>>, <<49>>},
        c \in {None, Client1},
        sv \in {None, Server1}}

\* Requests that vary the body and the Content-Type header.
BodyRequests ==
    {Request("POST", "/", <<>>, h, b, c, Server1) :
        h \in {<<>>} \cup {<<Header(S_content_type, ct)>> : ct \in ContentTypes},
        b \in Bodies,
        c \in {None, Client1}}

Requests == RoutingRequests \cup BodyRequests

\* Requests handled concurrently.
ConcRequests ==
    {Request(m, "/", <<>>, h, b, c, Server1) :
        m \in {"GET", "POST"},
        h \in {<<>>, <<Header(S_content_type, S_latin_1)>>, <<Header(S_content_type, S_undefined)>>},
        b \in {<<>>, <<91, 93>>, <<195, 169>>},
        c \in {Client1, Client2}}

(***************************************************************************)
(* State.                                                                  *)
(***************************************************************************)
VARIABLES
    pc,            \* per connection: where its request is
    req,           \* per connection: the request being handled
    resp,          \* per connection: the response, once there is one
    raw_body,      \* echo's local raw_body, per invocation
    body_text,     \* echo's local body_text, per invocation
    json_payload,  \* echo's local json_payload, per invocation
    arg,           \* the argument of a helper called on its own
    ret            \* its result

vars == <<pc, req, resp, raw_body, body_text, json_payload, arg, ret>>

Slots == {1, 2}

Unset == [t |-> "unset"]
NotCalled == [done |-> FALSE]

\* Frame with the locals kept in one place shared by every invocation.
SharedFrame(s) == 1

\* The frame holding the locals of the invocation of echo that serves
\* connection s: every invocation has its own.
Frame(s) == s

HandlerInit ==
    /\ pc = [s \in Slots |-> "idle"]
    /\ req = [s \in Slots |-> Unset]
    /\ resp = [s \in Slots |-> Unset]
    /\ raw_body = [s \in Slots |-> Unset]
    /\ body_text = [s \in Slots |-> Unset]
    /\ json_payload = [s \in Slots |-> Unset]

Init ==
    /\ HandlerInit
    /\ arg = Unset
    /\ ret = NotCalled

(***************************************************************************)
(* Actions: one request on connection s.                                   *)
(***************************************************************************)
\* The transport has parsed a request.
Receive(s, R) ==
    /\ pc[s] = "idle"
    /\ \E r \in R : req' = [req EXCEPT ![s] = r]
    /\ pc' = [pc EXCEPT ![s] = "routing"]
    /\ UNCHANGED <<resp, raw_body, body_text, json_payload, arg, ret>>

\* The router matches the request against the one route (lines 47-50).
Dispatch(s) ==
    /\ pc[s] = "routing"
    /\ LET to == Route(req[s].method, req[s].path) IN
       IF to = "echo"
       THEN /\ pc' = [pc EXCEPT ![s] = "body"]
            /\ UNCHANGED resp
       ELSE /\ pc' = [pc EXCEPT ![s] = "done"]
            /\ resp' = [resp EXCEPT ![s] =
                          [status |-> IF to = "405" THEN 405 ELSE 404, by |-> "router"]]
    /\ UNCHANGED <<req, raw_body, body_text, json_payload, arg, ret>>

\* Line 52: raw_body = await request.body()
ReadBody(s) ==
    /\ pc[s] = "body"
    /\ raw_body' = [raw_body EXCEPT ![Frame(s)] = req[s].body]
    /\ pc' = [pc EXCEPT ![s] = "decode"]
    /\ UNCHANGED <<req, resp, body_text, json_payload, arg, ret>>

\* Lines 53-58: body_text.  An exception other than LookupError leaves the
\* handler and the framework answers 500.
DecodeText(s) ==
    /\ pc[s] = "decode"
    /\ LET o == BodyText(raw_body[Frame(s)], req[s].headers) IN
       IF o.exc = "none"
       THEN /\ body_text' = [body_text EXCEPT ![Frame(s)] = o.value]
            /\ pc' = [pc EXCEPT ![s] = "json"]
            /\ UNCHANGED resp
       ELSE /\ resp' = [resp EXCEPT ![s] =
                          [status |-> 500, by |-> "echo", at |-> "decode", exc |-> o.exc]]
            /\ pc' = [pc EXCEPT ![s] = "done"]
            /\ UNCHANGED body_text
    /\ UNCHANGED <<req, raw_body, json_payload, arg, ret>>

\* Lines 60-65: json_payload (await request.json()).
ParseJson(s) ==
    /\ pc[s] = "json"
    /\ LET o == JsonPayload(raw_body[Frame(s)]) IN
       IF o.exc = "none"
       THEN /\ json_payload' = [json_payload EXCEPT ![Frame(s)] = o.value]
            /\ pc' = [pc EXCEPT ![s] = "return"]
            /\ UNCHANGED resp
       ELSE /\ resp' = [resp EXCEPT ![s] =
                          [status |-> 500, by |-> "echo", at |-> "json", exc |-> o.exc]]
            /\ pc' = [pc EXCEPT ![s] = "done"]
            /\ UNCHANGED json_payload
    /\ UNCHANGED <<req, raw_body, body_text, arg, ret>>

\* Lines 67-95: the dictionary is built and returned; the framework sends it
\* with status 200.
Return(s) ==
    /\ pc[s] = "return"
    /\ resp' = [resp EXCEPT ![s] =
                  [status |-> 200, by |-> "echo",
                   body |-> Assemble(req[s], raw_body[Frame(s)],
                                      body_text[Frame(s)], json_payload[Frame(s)])]]
    /\ pc' = [pc EXCEPT ![s] = "done"]
    /\ UNCHANGED <<req, raw_body, body_text, json_payload, arg, ret>>

\* The response is on the wire; nothing of the request is kept.
Finish(s) ==
    /\ pc[s] = "done"
    /\ pc' = [pc EXCEPT ![s] = "idle"]
    /\ req' = [req EXCEPT ![s] = Unset]
    /\ resp' = [resp EXCEPT ![s] = Unset]
    /\ raw_body' = [raw_body EXCEPT ![Frame(s)] = Unset]
    /\ body_text' = [body_text EXCEPT ![Frame(s)] = Unset]
    /\ json_payload' = [json_payload EXCEPT ![Frame(s)] = Unset]
    /\ UNCHANGED <<arg, ret>>

\* One request at a time, from the wide input set.
Next ==
    \/ Receive(1, Requests)
    \/ Dispatch(1)
    \/ ReadBody(1)
    \/ DecodeText(1)
    \/ ParseJson(1)
    \/ Return(1)
    \/ Finish(1)

Spec == Init /\ [][Next]_vars

\* Two connections served concurrently, interleaved at every step.
NextConc ==
    \E s \in Slots :
        \/ Receive(s, ConcRequests)
        \/ Dispatch(s)
        \/ ReadBody(s)
        \/ DecodeText(s)
        \/ ParseJson(s)
        \/ Return(s)
        \/ Finish(s)

SpecConc == Init /\ [][NextConc]_vars

(***************************************************************************)
(* _headers_to_list called on its own, on the kinds of object its probing  *)
(* (lines 35-42) provides for.                                             *)
(***************************************************************************)
HeaderNames == {S_x_tag, S_accept}
\* "a", "b", and the single byte 0xE9
HeaderValues == {<<97>>, <<98>>, <<233>>}
WireLists == SeqsUpTo({Header(n, v) : n \in HeaderNames, v \in HeaderValues}, MaxHeaders)

\* The (str, str) form of a received (bytes, bytes) header.
AsText(h) == <<PyStr(Latin1Decode(h[1].v)), PyStr(Latin1Decode(h[2].v))>>

DistinctNames(wire) == \A j, k \in DOMAIN wire : wire[j][1] = wire[k][1] => j = k

RECURSIVE Collapse(_)
\* dict(pairs).items(): one entry per name, at the place of its first
\* occurrence, holding its last value.
Collapse(pairs) ==
    IF Len(pairs) = 0 THEN <<>>
    ELSE LET name == pairs[1][1]
             same == {k \in DOMAIN pairs : pairs[k][1] = name}
             last == CHOOSE k \in same : \A j \in same : j <= k
             rest == SelectSeq(Tail(pairs), LAMBDA q : q[1] # name)
         IN <<<<name, pairs[last][2]>>>> \o Collapse(rest)

\* A multi-dict: .multi_items() gives every pair, .items() one per name.
MultiDict(wire) ==
    LET pairs == [k \in DOMAIN wire |-> AsText(wire[k])] IN
    [attrs |-> {"multi_items", "items"}, multi_items |-> pairs, items |-> Collapse(pairs)]

\* A plain mapping of the headers: it has .items() only.
PlainDict(wire) ==
    [attrs |-> {"items"}, items |-> [k \in DOMAIN wire |-> AsText(wire[k])]]

\* An object with none of the three access patterns.
PlainObject == [attrs |-> {}]

\* The headers received, with the object that exposes them.
HeaderArgs ==
    {[wire |-> w, headers |-> StarletteHeaders(w)] : w \in WireLists}
    \cup {[wire |-> w, headers |-> MultiDict(w)] : w \in WireLists}
    \cup {[wire |-> w, headers |-> PlainDict(w)] : w \in {x \in WireLists : DistinctNames(x)}}
    \cup {[wire |-> <<>>, headers |-> PlainObject]}

InitHeaders ==
    /\ HandlerInit
    /\ arg \in HeaderArgs
    /\ ret = NotCalled

CallHeadersToList ==
    /\ ~ret.done
    /\ ret' = [done |-> TRUE, value |-> _headers_to_list(arg.headers)]
    /\ UNCHANGED <<pc, req, resp, raw_body, body_text, json_payload, arg>>

NextHeaders == CallHeadersToList

SpecHeaders == InitHeaders /\ [][NextHeaders]_vars

(***************************************************************************)
(* _normalize_scope called on its own.                                     *)
(***************************************************************************)
ScopeKeys == {"type", "client", "state", "headers", "x"}

ScopeValues ==
    {PyStr("http"), PyInt(1), [t |-> "float", v |-> "1.5"], [t |-> "bool", v |-> TRUE], None,
     PyBytes(<<47>>), [t |-> "dict"], [t |-> "object"],
     PyList(<<>>), PyList(<<PyInt(1), PyInt(2)>>),
     Address("127.0.0.1", 8000),
     PyList(<<PyList(<<>>)>>), PyTuple(<<PyInt(1), [t |-> "dict"]>>)}

DistinctKeys(scope) == \A j, k \in DOMAIN scope : scope[j][1] = scope[k][1] => j = k

ScopeArgs ==
    {sc \in SeqsUpTo(ScopeKeys \X ScopeValues, MaxScope) : DistinctKeys(sc)}

InitScope ==
    /\ HandlerInit
    /\ arg \in ScopeArgs
    /\ ret = NotCalled

CallNormalizeScope ==
    /\ ~ret.done
    /\ ret' = [done |-> TRUE, value |-> _normalize_scope(arg)]
    /\ UNCHANGED <<pc, req, resp, raw_body, body_text, json_payload, arg>>

NextScope == CallNormalizeScope

SpecScope == InitScope /\ [][NextScope]_vars

(***************************************************************************)
(* Properties.                                                             *)
(***************************************************************************)
Done(s) == pc[s] = "done"
\* The request reached echo and echo has ended, one way or the other.
Echoed(s) == Done(s) /\ resp[s].by = "echo"
\* The request was answered 200 with the dictionary echo returned.
Ok(s) == Done(s) /\ resp[s].status = 200

\* The value of the request's Content-Type header, <<>> when it has none.
ContentTypeOf(r) == HeadersGet(r.headers, S_content_type, <<>>)

\* "charset="
S_charset_eq == <<99, 104, 97, 114, 115, 101, 116, 61>>

Min(S) == CHOOSE x \in S : \A y \in S : x <= y

\* The charset parameter of a Content-Type value: what follows "charset=" up
\* to the next ';', or <<>> when the value has no such parameter.
CharsetParam(value) ==
    LET starts == {i \in 1..(Len(value) - 7) : SubSeq(value, i, i + 7) = S_charset_eq} IN
    IF starts = {} THEN <<>>
    ELSE LET from == Min(starts) + 8
             stops == {j \in from..Len(value) : value[j] = 59}
             to == IF stops = {} THEN Len(value) ELSE Min(stops) - 1
         IN SubSeq(value, from, to)

\* The text the specification asks for: the body decoded with the charset the
\* Content-Type names, and the UTF-8 decoding with substitution when it names
\* none or none that decodes.
TextByNamedCharset(r) ==
    LET cs == CharsetParam(ContentTypeOf(r))
        d == Decode(r.body, cs)
    IN IF cs # <<>> /\ d.exc = "none" THEN d.text ELSE Utf8Replace(r.body)

\* C1: every request that reaches echo is answered 200, whatever its
\* Content-Type, body and connection info.
C1_EchoAlways200 ==
    \A s \in Slots : Echoed(s) => resp[s].status = 200

\* C2: every path, with each of the seven methods, is dispatched to echo and
\* answered 200 with `path` the requested path (stated for requests without a
\* body, which echo always answers).
C2_CatchAllRoute ==
    \A s \in Slots :
        Done(s) /\ req[s].method \in RouteMethods /\ req[s].body = <<>>
        => /\ resp[s].status = 200
           /\ resp[s].body.path = req[s].path

\* C3: for a non-empty body, body.text is the body decoded with the charset
\* named by the Content-Type's charset parameter (stated for the requests
\* whose Content-Type has a charset parameter: "text/plain; charset=latin-1"
\* decodes as Latin-1).
C3_TextUsesNamedCharset ==
    \A s \in Slots :
        Ok(s) /\ req[s].body # <<>> /\ CharsetParam(ContentTypeOf(req[s])) # <<>>
        => resp[s].body.body.text = PyStr(TextByNamedCharset(req[s]))

\* C4: for a non-empty valid UTF-8 body and a Content-Type without charset
\* parameter (or no Content-Type), body.text is the UTF-8 decoding exactly.
C4_Utf8WhenNoCharset ==
    \A s \in Slots :
        /\ Ok(s)
        /\ req[s].body # <<>>
        /\ Utf8Strict(req[s].body).ok
        /\ CharsetParam(ContentTypeOf(req[s])) = <<>>
        => resp[s].body.body.text = PyStr(Utf8Strict(req[s].body).v)

C6_Base64RoundTrip ==
    \A s \in Slots :
        Ok(s)
        => /\ resp[s].body.body.length = Len(req[s].body)
           /\ req[s].body # <<>>
              => /\ resp[s].body.body.base64.t = "str"
                 /\ b64decode(resp[s].body.body.base64.v) = req[s].body

\* C6 witness: a body that is not UTF-8 (0xA9 0xC3) came back as "qcM=".
C6_Witness ==
    /\ Ok(1)
    /\ req[1].body = <<169, 195>>
    /\ resp[1].body.body.base64 = PyStr(<<113, 99, 77, 61>>)
    /\ resp[1].body.body.length = 2

\* C7: a request with an empty body is answered with body.text, body.base64
\* and json all null (not empty strings) and body.length 0.
C7_EmptyBodyAllAbsent ==
    \A s \in Slots :
        Echoed(s) /\ req[s].body = <<>>
        => /\ resp[s].status = 200
           /\ resp[s].body.body.text = None
           /\ resp[s].body.body.base64 = None
           /\ resp[s].body.json = None
           /\ resp[s].body.body.length = 0

\* C7 witness: an empty-bodied request carrying a Content-Type was answered.
C7_Witness ==
    /\ Ok(1)
    /\ req[1].body = <<>>
    /\ ContentTypeOf(req[1]) = S_application_json
    /\ resp[1].body.body.text = None

\* C8: _headers_to_list returns exactly one {name, value} entry per header
\* received, in receipt order, duplicates included, whichever of raw,
\* multi_items and items the headers object exposes.
C8_HeadersOnePerReceived ==
    ret.done
    => /\ Len(ret.value) = Len(arg.wire)
       /\ \A k \in DOMAIN arg.wire :
              ret.value[k] = [name |-> arg.wire[k][1].v, value |-> arg.wire[k][2].v]

\* C8 witness: X-Tag: a and X-Tag: b, read through .raw, gave two entries in
\* that order.
C8_Witness ==
    /\ ret.done
    /\ arg.wire = <<Header(S_x_tag, <<97>>), Header(S_x_tag, <<98>>)>>
    /\ "raw" \in arg.headers.attrs
    /\ ret.value = <<[name |-> S_x_tag, value |-> <<97>>], [name |-> S_x_tag, value |-> <<98>>]>>

\* The scalar types of the specification: string, number, boolean, null.
ScalarTypes == {"str", "int", "float", "bool", "None"}

KeysOf(entries) == {entries[k][1] : k \in DOMAIN entries}
ValueAt(entries, key) == entries[CHOOSE k \in DOMAIN entries : entries[k][1] = key][2]

\* A list or tuple whose items are all scalars.
ScalarSequence(value) ==
    /\ value.t \in {"list", "tuple"}
    /\ \A k \in DOMAIN value.v : value.v[k].t \in ScalarTypes

\* ... and all of one type.
Homogeneous(value) == \A j, k \in DOMAIN value.v : value.v[j].t = value.v[k].t

NotRedundant(key) ==
    key \notin {"headers", "raw_headers", "app", "router", "endpoint", "state"}

\* A retained value is the value given: the same scalar, or a sequence of the
\* same items in the same order.
SameValue(given, kept) ==
    IF given.t \in {"list", "tuple"} THEN kept.t = "list" /\ kept.v = given.v
    ELSE kept = given

\* C9 as stated: the snapshot holds exactly the entries with a non-redundant
\* key and a scalar or a homogeneous sequence of scalars, values unchanged.
C9_HomogeneousOnly ==
    ret.done
    => /\ KeysOf(ret.value) =
              {key \in KeysOf(arg) :
                  /\ NotRedundant(key)
                  /\ \/ ValueAt(arg, key).t \in ScalarTypes
                     \/ ScalarSequence(ValueAt(arg, key)) /\ Homogeneous(ValueAt(arg, key))}
       /\ \A key \in KeysOf(ret.value) : SameValue(ValueAt(arg, key), ValueAt(ret.value, key))

\* C9 amended: the snapshot holds exactly the entries with a non-redundant key
\* and a scalar or a list or tuple of scalars (of one type or several), in
\* the order given, values unchanged.
C9_ScalarSequences ==
    ret.done
    => /\ KeysOf(ret.value) =
              {key \in KeysOf(arg) :
                  /\ NotRedundant(key)
                  /\ \/ ValueAt(arg, key).t \in ScalarTypes
                     \/ ScalarSequence(ValueAt(arg, key))}
       /\ \A key \in KeysOf(ret.value) : SameValue(ValueAt(arg, key), ValueAt(ret.value, key))
       /\ Len(ret.value) = Cardinality(KeysOf(ret.value))
       /\ \A j, k \in DOMAIN ret.value :
              j < k => \E a, b \in DOMAIN arg :
                          a < b /\ arg[a][1] = ret.value[j][1] /\ arg[b][1] = ret.value[k][1]

\* C9 witness: the (host, port) pair under "client" is kept, and a scalar
\* under the redundant key "state" is dropped.
C9_Witness ==
    /\ ret.done
    /\ arg = <<<<"client", Address("127.0.0.1", 8000)>>, <<"state", PyInt(1)>>>>
    /\ ret.value = <<<<"client", PyList(<<PyStr("127.0.0.1"), PyInt(8000)>>)>>>>

\* What echo returns for request r when nothing else runs.
EchoOf(r) ==
    Assemble(r, r.body, BodyText(r.body, r.headers).value, JsonPayload(r.body).value)

\* The requests are the same but for the client address.
SameButClient(r1, r2) == [r1 EXCEPT !.client = None] = [r2 EXCEPT !.client = None]

\* A response without the fields that show the client address.
WithoutClient(b) ==
    [b EXCEPT !.client = None,
              !.scope = SelectSeq(b.scope, LAMBDA e : e[1] # "client")]

\* C10: under any interleaving of two requests, each invocation works on its
\* own request's body, each response is what echo returns for its own request
\* alone, equal requests get equal responses, and requests that differ in the
\* client address only get responses that differ in the client fields only.
C10_PureFunctionOfRequest ==
    \A s \in Slots :
        /\ pc[s] \in {"decode", "json", "return"} => raw_body[s] = req[s].body
        /\ Ok(s) => resp[s].body = EchoOf(req[s])
        /\ \A u \in Slots :
              /\ Done(s) /\ Done(u) /\ req[s] = req[u] => resp[s] = resp[u]
              /\ Ok(s) /\ Ok(u) /\ SameButClient(req[s], req[u])
                 => WithoutClient(resp[s].body) = WithoutClient(resp[u].body)

\* C10 witness: two requests alike but for the client port are both answered,
\* while handled at the same time, with bodies that differ.
C10_Witness ==
    /\ Ok(1) /\ Ok(2)
    /\ req[1].body = <<195, 169>>
    /\ req[1].client # req[2].client
    /\ SameButClient(req[1], req[2])
    /\ resp[1].body # resp[2].body
    /\ WithoutClient(resp[1].body) = WithoutClient(resp[2].body)

===========================================================================
